---- MODULE Spec2Model ----
(***************************************************************************)
(* Model of MarketDates.py: the date-gap finder (find_missing_dates), the  *)
(* token date formatter (format_date) and the run of main() around them.   *)
(*                                                                         *)
(* Text is modelled as a sequence of one-character strings, so that        *)
(* strptime, str.replace and strftime are computed character by character. *)
(* A datetime at midnight is modelled by its proleptic Gregorian ordinal   *)
(* (datetime.toordinal()); adding timedelta(days=x) is adding x.           *)
(***************************************************************************)
EXTENDS Integers, Sequences, FiniteSets, TLC

\* ---------------------------------------------------------------- bounds
\* number of consecutive calendar days the finder is exercised on
FindDays == 6
\* number of consecutive calendar days the input file of a run draws from
MainDays == 3
\* largest number of rows of the input file of a run
MaxRows == 2
\* largest number of pieces a formatting template is built from
MaxPieces == 3

\* ------------------------------------------------------------- characters
Digits == <<"0", "1", "2", "3", "4", "5", "6", "7", "8", "9">>

IsDigit(c) == \E k \in 1..10 : Digits[k] = c

DigitVal(c) == (CHOOSE k \in 1..10 : Digits[k] = c) - 1

RECURSIVE Number(_)
\* value of a non-empty string of decimal digits
Number(s) ==
    IF Len(s) = 0 THEN 0
    ELSE 10 * Number(SubSeq(s, 1, Len(s) - 1)) + DigitVal(s[Len(s)])

RECURSIVE Pad(_, _)
\* n in decimal, zero-padded to at least w digits
Pad(n, w) ==
    IF w <= 1 /\ n < 10 THEN <<Digits[n + 1]>>
    ELSE Pad(n \div 10, w - 1) \o <<Digits[(n % 10) + 1]>>

\* --------------------------------------------------------------- calendar
IsLeap(y) == y % 4 = 0 /\ (y % 100 # 0 \/ y % 400 = 0)

DaysInMonth(y, m) ==
    IF m = 2 THEN (IF IsLeap(y) THEN 29 ELSE 28)
    ELSE IF m \in {4, 6, 9, 11} THEN 30 ELSE 31

DaysBeforeYear(y) ==
    (y - 1) * 365 + ((y - 1) \div 4) - ((y - 1) \div 100) + ((y - 1) \div 400)

RECURSIVE DaysBeforeMonth(_, _)
DaysBeforeMonth(y, m) ==
    IF m = 1 THEN 0 ELSE DaysBeforeMonth(y, m - 1) + DaysInMonth(y, m - 1)

\* date(y, m, d).toordinal()
Ymd2Ord(y, m, d) == DaysBeforeYear(y) + DaysBeforeMonth(y, m) + d

\* the year, month and day fields of the datetime with ordinal n
YearOf(n) ==
    CHOOSE y \in (n \div 366)..((n \div 365) + 1) :
        DaysBeforeYear(y) < n /\ n <= DaysBeforeYear(y + 1)

MonthOf(n) ==
    LET y == YearOf(n)
        r == n - DaysBeforeYear(y)
    IN  CHOOSE m \in 1..12 :
            DaysBeforeMonth(y, m) < r /\ r <= DaysBeforeMonth(y, m) + DaysInMonth(y, m)

DayOf(n) == n - DaysBeforeYear(YearOf(n)) - DaysBeforeMonth(YearOf(n), MonthOf(n))

\* datetime.weekday(): Monday is 0, Sunday is 6
weekday(n) == (n + 6) % 7

\* ---------------------------------------------------------------- strptime
\* the value that stands for a raised ValueError (ordinals start at 1)
ValueError == 0

RECURSIVE Fields(_)
\* s split at every "-"
Fields(s) ==
    IF \A k \in 1..Len(s) : s[k] # "-" THEN <<s>>
    ELSE LET p == CHOOSE k \in 1..Len(s) :
                      s[k] = "-" /\ \A j \in 1..(k - 1) : s[j] # "-"
         IN  <<SubSeq(s, 1, p - 1)>> \o Fields(SubSeq(s, p + 1, Len(s)))

AllDigits(s) == \A k \in 1..Len(s) : IsDigit(s[k])

\* datetime.strptime(s, '%Y-%m-%d'): the ordinal of the date, or ValueError.
\* %Y takes exactly four digits, %m and %d one or two digits, then the date
\* itself must exist.
strptime(s) ==
    LET f == Fields(s) IN
    IF Len(f) # 3 THEN ValueError
    ELSE IF ~(Len(f[1]) = 4 /\ AllDigits(f[1])) THEN ValueError
    ELSE IF ~(Len(f[2]) \in 1..2 /\ AllDigits(f[2]) /\ Number(f[2]) \in 1..12)
         THEN ValueError
    ELSE IF ~(Len(f[3]) \in 1..2 /\ AllDigits(f[3]) /\ Number(f[3]) \in 1..31)
         THEN ValueError
    ELSE IF Number(f[1]) < 1 THEN ValueError
    ELSE IF Number(f[3]) > DaysInMonth(Number(f[1]), Number(f[2])) THEN ValueError
    ELSE Ymd2Ord(Number(f[1]), Number(f[2]), Number(f[3]))

\* the text of a date as the input file and the overrides give it
IsoText(n) == Pad(YearOf(n), 4) \o <<"-">> \o Pad(MonthOf(n), 2) \o <<"-">> \o Pad(DayOf(n), 2)

\* ------------------------------------------------------- find_missing_dates
\* AllDates with the "+ 1" of the range forgotten: the end date is left out
AllDatesShort(start, end) == {start + x : x \in 0..(end - start - 1)}

\* all_dates: start_date + timedelta(days=x) for x in range((end - start).days + 1)
AllDates(start, end) == {start + x : x \in 0..(end - start)}

\* the known dates, each parsed from its text
ParsedDates(ds) == {strptime(d) : d \in ds}

\* ExcludeWeekends with "<= 5" for "< 5": Saturdays are kept
ExcludeWeekendsSat(missing) == {d \in missing : weekday(d) <= 5}

\* the list comprehension that keeps Monday..Friday
ExcludeWeekends(missing) == {d \in missing : weekday(d) < 5}

RECURSIVE sortedDescending(_)
\* sorted with the order reversed
sortedDescending(S) ==
    IF S = {} THEN <<>>
    ELSE LET m == CHOOSE x \in S : \A y \in S : x >= y
         IN  <<m>> \o sortedDescending(S \ {m})

RECURSIVE sorted(_)
\* sorted(): the elements of a collection of distinct dates, ascending.
\* (The set, and the list built from it, are iterated in hash order; sorted
\* makes the result independent of that order.)
sorted(S) ==
    IF S = {} THEN <<>>
    ELSE LET m == CHOOSE x \in S : \A y \in S : x <= y
         IN  <<m>> \o sorted(S \ {m})

\* find_missing_dates with the test of the mode forgotten: always filters
find_missing_dates_filtering(ds, start, end, data_format) ==
    LET all_dates == AllDates(start, end)
        missing   == all_dates \ ParsedDates(ds)
    IN  sorted(ExcludeWeekends(missing))

find_missing_dates(ds, start, end, data_format) ==
    LET all_dates == AllDates(start, end)
        missing   == all_dates \ ParsedDates(ds)
    IN  IF data_format = "N" THEN sorted(ExcludeWeekends(missing))
        ELSE sorted(missing)

\* -------------------------------------------------------------- format_date
RECURSIVE Replace(_, _, _)
\* str.replace(old, new): leftmost non-overlapping occurrences
Replace(s, old, new) ==
    IF Len(s) < Len(old) THEN s
    ELSE IF SubSeq(s, 1, Len(old)) = old
         THEN new \o Replace(SubSeq(s, Len(old) + 1, Len(s)), old, new)
    ELSE <<Head(s)>> \o Replace(Tail(s), old, new)

\* the template with its tokens turned into strftime directives
Directives(format) ==
    Replace(Replace(Replace(format, <<"Y", "Y", "Y", "Y">>, <<"%", "Y">>),
                    <<"M", "M">>, <<"%", "m">>),
            <<"D", "D">>, <<"%", "d">>)

\* the conversions of strftime that the templates of the model can produce
Conversions == {"Y", "m", "d", "M", "D", "%"}

\* what one conversion of strftime expands to (a datetime at midnight)
Convert(n, c) ==
    CASE c = "Y" -> Pad(YearOf(n), 4)
      [] c = "m" -> Pad(MonthOf(n), 2)
      [] c = "d" -> Pad(DayOf(n), 2)
      [] c = "M" -> <<"0", "0">>
      [] c = "D" -> Pad(MonthOf(n), 2) \o <<"/">> \o Pad(DayOf(n), 2) \o <<"/">>
                    \o Pad(YearOf(n) % 100, 2)
      [] c = "%" -> <<"%">>

RECURSIVE BadDirective(_)
\* the format has a "%" that no conversion follows
BadDirective(fmt) ==
    IF Len(fmt) = 0 THEN FALSE
    ELSE IF Head(fmt) # "%" THEN BadDirective(Tail(fmt))
    ELSE IF Len(fmt) = 1 THEN TRUE
    ELSE IF fmt[2] \notin Conversions THEN TRUE
    ELSE BadDirective(SubSeq(fmt, 3, Len(fmt)))

RECURSIVE strftime(_, _)
\* date.strftime(fmt) where the C library copies a "%" that no conversion
\* follows (the other behaviour, a ValueError, is StrftimeRaises)
strftime(n, fmt) ==
    IF Len(fmt) = 0 THEN <<>>
    ELSE IF Head(fmt) # "%" THEN <<Head(fmt)>> \o strftime(n, Tail(fmt))
    ELSE IF Len(fmt) = 1 THEN <<"%">>
    ELSE IF fmt[2] \notin Conversions THEN <<"%">> \o strftime(n, Tail(fmt))
    ELSE Convert(n, fmt[2]) \o strftime(n, SubSeq(fmt, 3, Len(fmt)))

\* the C libraries strftime runs on: one copies an invalid directive, the
\* other rejects the format string
Libcs == {"copies", "rejects"}

StrftimeRaises(lc, fmt) == lc = "rejects" /\ BadDirective(fmt)

format_date(date, format) == strftime(date, Directives(format))

format_date_raises(lc, format) == StrftimeRaises(lc, Directives(format))

\* --------------------------------------------------------------- the inputs
\* Friday 29 December 2023: the first day of the days the finder is exercised
\* on, so that they span a weekend and the turn of a year
FirstDay == Ymd2Ord(2023, 12, 29)

FindWindow == FirstDay..(FirstDay + FindDays - 1)

\* Sunday 31 December 2023: the first day of the days a run draws from
MainFirstDay == Ymd2Ord(2023, 12, 31)

MainWindow == MainFirstDay..(MainFirstDay + MainDays - 1)

\* 1 January 2024 written without padding, which strptime accepts as well
UnpaddedText == <<"2", "0", "2", "4", "-", "1", "-", "1">>

\* 30 February 2023: has the form YYYY-MM-DD and is no date
NoDateText == <<"2", "0", "2", "3", "-", "0", "2", "-", "3", "0">>

AllText == <<"A", "l", "l">>

HeaderText == <<"D", "a", "t", "e">>

\* the values of --start_date and --end_date
Overrides == {AllText, NoDateText} \cup {IsoText(n) : n \in MainWindow}

\* the values of --data_format
Modes == {"N", "W", "n"}

\* the values of --out_date_format of a run
MainTemplates ==
    { <<"Y", "Y", "Y", "Y", "-", "M", "M", "-", "D", "D">>,
      <<"D", "D", "/", "M", "M", "/", "Y", "Y", "Y", "Y">> }

RECURSIVE SeqsUpTo(_, _)
\* the sequences of at most n elements of S
SeqsUpTo(S, n) ==
    IF n = 0 THEN {<<>>}
    ELSE LET shorter == SeqsUpTo(S, n - 1)
         IN  shorter \cup {Append(q, x) : q \in shorter, x \in S}

\* the Date column of the input file: any order, duplicates allowed
RowTexts == {IsoText(n) : n \in MainWindow}

\* the pieces a template handed to format_date is built from
Pieces ==
    { <<"Y", "Y", "Y", "Y">>, <<"M", "M">>, <<"D", "D">>,
      <<"Y">>, <<"M">>, <<"D">>, <<"/">>, <<"%">> }

RECURSIVE Templates(_)
Templates(n) ==
    IF n = 0 THEN {<<>>}
    ELSE LET shorter == Templates(n - 1)
         IN  shorter \cup {q \o x : q \in shorter, x \in Pieces}

\* ------------------------------------------------------------------- state
VARIABLES
    args,            \* the parsed command line
    in_exists,       \* whether the input file exists
    in_rows,         \* the Date column of the input file, in file order
    libc,            \* how strftime of the platform treats an invalid directive
    pc,              \* the position of the run
    dates,           \* main: the Date texts, sorted by date
    known,           \* find_missing_dates: its parameter dates
    start_date,      \* the start of the range (0 until determined)
    end_date,        \* the end of the range (0 until determined)
    missing_dates,   \* the result of find_missing_dates
    out_file,        \* the output file: whether opened, and its rows
    formatted_date,  \* the last result of format_date
    stdout,          \* the messages printed
    exit_code,       \* -1 while running, then the exit status
    error,           \* the uncaught exception, or "none"
    accessed         \* the file operations done so far, in order

vars == <<args, in_exists, in_rows, libc, pc, dates, known, start_date, end_date,
          missing_dates, out_file, formatted_date, stdout, exit_code, error,
          accessed>>

\* the parsed command line with the defaults of the parser
DefaultArgs ==
    [start_date |-> AllText, end_date |-> AllText, data_format |-> "N",
     out_date_format |-> <<"Y", "Y", "Y", "Y", "-", "M", "M", "-", "D", "D">>,
     out_filename |-> "dates.csv"]

\* the state of everything a run has not touched yet
Untouched ==
    /\ missing_dates = <<>>
    /\ out_file = [state |-> "untouched", rows |-> <<>>]
    /\ formatted_date = <<>>
    /\ stdout = <<>>
    /\ exit_code = -1
    /\ error = "none"
    /\ accessed = <<>>

\* a run of the program about to call main()
Init ==
    /\ pc = "parse_arguments"
    /\ args \in [start_date : Overrides, end_date : Overrides, data_format : Modes,
                 out_date_format : MainTemplates, out_filename : {"dates.csv"}]
    /\ in_exists \in BOOLEAN
    /\ in_rows \in (IF in_exists THEN SeqsUpTo(RowTexts, MaxRows) ELSE {<<>>})
    /\ libc = "copies"
    /\ dates = <<>>
    /\ known = {}
    /\ start_date = 0
    /\ end_date = 0
    /\ Untouched

\* --------------------------------------------------------- parse_arguments
\* OverrideOk with the validation left out
OverrideOkAlways(text) == TRUE

\* the validation of one override: "All", or a text strptime accepts
OverrideOk(text) == text = AllText \/ strptime(text) # ValueError

Message(text, from, to) == [text |-> text, from |-> from, to |-> to]

\* the run ends: sys.exit(code), an uncaught exception, or the end of main
Terminate(code, exc) ==
    /\ exit_code' = code
    /\ error' = exc
    /\ pc' = "done"

ParseArguments ==
    /\ pc = "parse_arguments"
    /\ IF ~OverrideOk(args.start_date)
       THEN /\ stdout' = Append(stdout, Message("start_date format error", <<>>, <<>>))
            /\ Terminate(1, "none")
       ELSE IF ~OverrideOk(args.end_date)
       THEN /\ stdout' = Append(stdout, Message("end_date format error", <<>>, <<>>))
            /\ Terminate(1, "none")
       ELSE /\ pc' = "check_exists"
            /\ UNCHANGED <<stdout, exit_code, error>>
    /\ UNCHANGED <<args, in_exists, in_rows, libc, dates, known, start_date, end_date,
                   missing_dates, out_file, formatted_date, accessed>>

\* -------------------------------------------------------------------- main
\* os.path.exists(in_filename)
CheckExists ==
    /\ pc = "check_exists"
    /\ accessed' = Append(accessed, "exists")
    /\ IF ~in_exists
       THEN /\ stdout' = Append(stdout, Message("file not found", <<>>, <<>>))
            /\ Terminate(1, "none")
       ELSE /\ pc' = "load"
            /\ UNCHANGED <<stdout, exit_code, error>>
    /\ UNCHANGED <<args, in_exists, in_rows, libc, dates, known, start_date, end_date,
                   missing_dates, out_file, formatted_date>>

RECURSIVE Insert(_, _)
\* row put after every row of the sorted rows whose date is not later
Insert(rows, row) ==
    IF rows = <<>> THEN <<row>>
    ELSE IF strptime(rows[Len(rows)]) <= strptime(row) THEN Append(rows, row)
    ELSE Append(Insert(SubSeq(rows, 1, Len(rows) - 1), row), rows[Len(rows)])

RECURSIVE SortRows(_)
\* sorted(reader, key=strptime): ascending by date, stable
SortRows(rows) ==
    IF rows = <<>> THEN <<>>
    ELSE Insert(SortRows(SubSeq(rows, 1, Len(rows) - 1)), rows[Len(rows)])

\* the input file is read, its rows sorted and their Date column taken
Load ==
    /\ pc = "load"
    /\ accessed' = Append(accessed, "read")
    /\ IF \E k \in 1..Len(in_rows) : strptime(in_rows[k]) = ValueError
       THEN /\ Terminate(1, "ValueError")
            /\ UNCHANGED dates
       ELSE /\ dates' = SortRows(in_rows)
            /\ pc' = "range"
            /\ UNCHANGED <<exit_code, error>>
    /\ UNCHANGED <<args, in_exists, in_rows, libc, known, start_date, end_date,
                   missing_dates, out_file, formatted_date, stdout>>

\* one end of the range: the override, or else the date of the given row
RangeEnd(override, row) == IF override = AllText THEN strptime(row) ELSE strptime(override)

\* start_date and end_date are determined, in this order
DetermineRange ==
    /\ pc = "range"
    /\ IF args.start_date = AllText /\ dates = <<>>
       THEN /\ Terminate(1, "IndexError")
            /\ UNCHANGED <<start_date, end_date>>
       ELSE IF RangeEnd(args.start_date, dates[1]) = ValueError
       THEN /\ Terminate(1, "ValueError")
            /\ UNCHANGED <<start_date, end_date>>
       ELSE /\ start_date' = RangeEnd(args.start_date, dates[1])
            /\ IF args.end_date = AllText /\ dates = <<>>
               THEN /\ Terminate(1, "IndexError")
                    /\ UNCHANGED end_date
               ELSE IF RangeEnd(args.end_date, dates[Len(dates)]) = ValueError
               THEN /\ Terminate(1, "ValueError")
                    /\ UNCHANGED end_date
               ELSE /\ end_date' = RangeEnd(args.end_date, dates[Len(dates)])
                    /\ pc' = "find"
                    /\ UNCHANGED <<exit_code, error>>
    /\ UNCHANGED <<args, in_exists, in_rows, libc, dates, known, missing_dates,
                   out_file, formatted_date, stdout, accessed>>

\* set(dates)
ToSet(q) == {q[k] : k \in 1..Len(q)}

\* missing_dates = find_missing_dates(set(dates), start_date, end_date, data_format)
Find ==
    /\ pc = "find"
    /\ known' = ToSet(dates)
    /\ missing_dates' = find_missing_dates(ToSet(dates), start_date, end_date,
                                           args.data_format)
    /\ pc' = "open"
    /\ UNCHANGED <<args, in_exists, in_rows, libc, dates, start_date, end_date,
                   out_file, formatted_date, stdout, exit_code, error, accessed>>

\* open(out_filename, 'w') and the header row
OpenOutput ==
    /\ pc = "open"
    /\ accessed' = Append(accessed, "open")
    /\ out_file' = [state |-> "open", rows |-> <<HeaderText>>]
    /\ pc' = "write"
    /\ UNCHANGED <<args, in_exists, in_rows, libc, dates, known, start_date, end_date,
                   missing_dates, formatted_date, stdout, exit_code, error>>

\* one turn of the loop over missing_dates; an exception leaves the with
\* block, which closes the file
WriteRow ==
    /\ pc = "write"
    /\ Len(out_file.rows) <= Len(missing_dates)
    /\ IF format_date_raises(libc, args.out_date_format)
       THEN /\ out_file' = [out_file EXCEPT !.state = "closed"]
            /\ Terminate(1, "ValueError")
            /\ UNCHANGED formatted_date
       ELSE /\ formatted_date' = format_date(missing_dates[Len(out_file.rows)],
                                             args.out_date_format)
            /\ out_file' = [out_file EXCEPT !.rows = Append(@, formatted_date')]
            /\ UNCHANGED <<pc, exit_code, error>>
    /\ UNCHANGED <<args, in_exists, in_rows, libc, dates, known, start_date, end_date,
                   missing_dates, stdout, accessed>>

\* the loop is over and the with block closes the file
CloseOutput ==
    /\ pc = "write"
    /\ Len(out_file.rows) > Len(missing_dates)
    /\ out_file' = [out_file EXCEPT !.state = "closed"]
    /\ pc' = "summary"
    /\ UNCHANGED <<args, in_exists, in_rows, libc, dates, known, start_date, end_date,
                   missing_dates, formatted_date, stdout, exit_code, error, accessed>>

\* SummaryText that takes "W", not everything but "N", for the weekend mode
SummaryTextOnlyW(data_format) ==
    IF data_format = "W" THEN "Non-trading days with weekends"
    ELSE "Non-trading days without weekends"

\* the wording of the success message
SummaryText(data_format) ==
    IF data_format = "N" THEN "Non-trading days without weekends"
    ELSE "Non-trading days with weekends"

\* missing_dates[0] and missing_dates[-1] are formatted and the message is
\* printed. (The code rebinds start_date and end_date to the two texts; the
\* model keeps them in the message.)
Summary ==
    /\ pc = "summary"
    /\ IF missing_dates = <<>>
       THEN /\ Terminate(1, "IndexError")
            /\ UNCHANGED <<formatted_date, stdout>>
       ELSE IF format_date_raises(libc, args.out_date_format)
       THEN /\ Terminate(1, "ValueError")
            /\ UNCHANGED <<formatted_date, stdout>>
       ELSE /\ stdout' = Append(stdout,
                   Message(SummaryText(args.data_format),
                           format_date(missing_dates[1], args.out_date_format),
                           format_date(missing_dates[Len(missing_dates)],
                                       args.out_date_format)))
            /\ UNCHANGED formatted_date
            /\ Terminate(0, "none")
    /\ UNCHANGED <<args, in_exists, in_rows, libc, dates, known, start_date, end_date,
                   missing_dates, out_file, accessed>>

Next ==
    \/ ParseArguments
    \/ CheckExists
    \/ Load
    \/ DetermineRange
    \/ Find
    \/ OpenOutput
    \/ WriteRow
    \/ CloseOutput
    \/ Summary

Spec == Init /\ [][Next]_vars

\* ------------------------------------------- find_missing_dates on its own
\* the texts the known set is drawn from
FindTexts == {IsoText(n) : n \in FindWindow} \cup {UnpaddedText}

InitFind ==
    /\ pc = "find_missing_dates"
    /\ args \in {[DefaultArgs EXCEPT !.data_format = m] : m \in Modes}
    /\ in_exists = FALSE
    /\ in_rows = <<>>
    /\ libc = "copies"
    /\ dates = <<>>
    /\ known \in SUBSET FindTexts
    /\ start_date \in FindWindow
    /\ end_date \in FindWindow
    /\ Untouched

CallFindMissingDates ==
    /\ pc = "find_missing_dates"
    /\ missing_dates' = find_missing_dates(known, start_date, end_date, args.data_format)
    /\ pc' = "returned"
    /\ UNCHANGED <<args, in_exists, in_rows, libc, dates, known, start_date, end_date,
                   out_file, formatted_date, stdout, exit_code, error, accessed>>

NextFind == CallFindMissingDates

SpecFind == InitFind /\ [][NextFind]_vars

\* -------------------------------------------------- format_date on its own
InitFormat ==
    /\ pc = "format_date"
    /\ args \in {[DefaultArgs EXCEPT !.out_date_format = t] : t \in Templates(MaxPieces)}
    /\ in_exists = FALSE
    /\ in_rows = <<>>
    /\ libc \in Libcs
    /\ dates = <<>>
    /\ known = {}
    /\ start_date = 0
    /\ end_date = 0
    /\ missing_dates \in {<<n>> : n \in MainWindow}
    /\ out_file = [state |-> "untouched", rows |-> <<>>]
    /\ formatted_date = <<>>
    /\ stdout = <<>>
    /\ exit_code = -1
    /\ error = "none"
    /\ accessed = <<>>

CallFormatDate ==
    /\ pc = "format_date"
    /\ IF format_date_raises(libc, args.out_date_format)
       THEN /\ error' = "ValueError"
            /\ pc' = "raised"
            /\ UNCHANGED formatted_date
       ELSE /\ formatted_date' = format_date(missing_dates[1], args.out_date_format)
            /\ pc' = "returned"
            /\ UNCHANGED error
    /\ UNCHANGED <<args, in_exists, in_rows, libc, dates, known, start_date, end_date,
                   missing_dates, out_file, stdout, exit_code, accessed>>

NextFormat == CallFormatDate

SpecFormat == InitFormat /\ [][NextFormat]_vars

\* ================================================================ properties
\* the dates the texts of a known set stand for
KnownDates == {strptime(t) : t \in known} \ {ValueError}

IsWeekend(n) == weekday(n) \in {5, 6}

Returned == {missing_dates[k] : k \in 1..Len(missing_dates)}

\* find_missing_dates has been called by main
AfterFind == pc \in {"open", "write", "summary"} \/ (pc = "done" /\ Len(accessed) = 3)

\* C1: every date find_missing_dates returns for a non-empty known set and a
\* range with start <= end lies in [start, end], is absent from the known
\* set and, in mode "N", falls on Monday..Friday.
C1_ReturnedDatesAreMissing ==
    (pc = "returned" /\ known # {} /\ start_date <= end_date) =>
        \A k \in 1..Len(missing_dates) :
            /\ start_date <= missing_dates[k]
            /\ missing_dates[k] <= end_date
            /\ \A t \in known : strptime(t) # missing_dates[k]
            /\ (args.data_format = "N" => weekday(missing_dates[k]) \in 0..4)

\* C1 witness: mode "N" has returned dates of a range that holds a known
\* date and a weekend day that is not known.
C1_Witness ==
    /\ pc = "returned"
    /\ args.data_format = "N"
    /\ start_date < end_date
    /\ Len(missing_dates) >= 2
    /\ \E n \in start_date..end_date : n \in KnownDates
    /\ \E n \in start_date..end_date : IsWeekend(n) /\ n \notin KnownDates

\* C2: for start <= end the returned dates, the known dates of the range and
\* (mode "N") the weekend days of the range together are exactly the days
\* from start to end; no weekday of the range that is absent from known is
\* left out.
C2_Complete ==
    (pc = "returned" /\ start_date <= end_date) =>
        /\ Returned
             \cup {n \in start_date..end_date : n \in KnownDates}
             \cup (IF args.data_format = "N"
                   THEN {n \in start_date..end_date : IsWeekend(n)} ELSE {})
           = start_date..end_date
        /\ \A n \in start_date..end_date :
               (~IsWeekend(n) /\ n \notin KnownDates) => n \in Returned

\* C2 witness: a range of several days with a known day, a returned day and
\* the end day itself returned.
C2_Witness ==
    /\ pc = "returned"
    /\ start_date < end_date
    /\ \E n \in start_date..end_date : n \in KnownDates
    /\ end_date \in Returned
    /\ Len(missing_dates) >= 2

\* C3: when start is after end the finder fails with an InvalidRangeError
\* instead of returning a result.
C3_InvalidRangeReported ==
    (pc = "returned" /\ start_date > end_date) => error = "InvalidRangeError"

\* C4: a run that ends in an error has not opened or written the output
\* file; a run that ends successfully has written the header and every
\* missing date.
C4_AllOrNothing ==
    /\ (pc = "done" /\ exit_code # 0) => out_file.state = "untouched"
    /\ (pc = "done" /\ exit_code = 0) =>
           /\ out_file.state = "closed"
           /\ Len(out_file.rows) = Len(missing_dates) + 1
           /\ out_file.rows[1] = HeaderText

\* C5: a run whose input file exists, whose overrides parse and whose
\* range has start <= end ends with the summary printed and exit status 0,
\* however many missing dates were found.
C5_ValidRunSucceeds ==
    (/\ pc = "done"
     /\ in_exists
     /\ args.start_date = AllText \/ strptime(args.start_date) # ValueError
     /\ args.end_date = AllText \/ strptime(args.end_date) # ValueError
     /\ start_date > 0 /\ end_date > 0
     /\ start_date <= end_date)
    => /\ exit_code = 0
       /\ Len(stdout) = 1
       /\ stdout[1].text = SummaryText(args.data_format)

RECURSIVE TokenFormat(_, _)
\* the template read from left to right: a token gives its field, every
\* other character gives itself
TokenFormat(n, t) ==
    IF Len(t) = 0 THEN <<>>
    ELSE IF Len(t) >= 4 /\ SubSeq(t, 1, 4) = <<"Y", "Y", "Y", "Y">>
         THEN Pad(YearOf(n), 4) \o TokenFormat(n, SubSeq(t, 5, Len(t)))
    ELSE IF Len(t) >= 2 /\ SubSeq(t, 1, 2) = <<"M", "M">>
         THEN Pad(MonthOf(n), 2) \o TokenFormat(n, SubSeq(t, 3, Len(t)))
    ELSE IF Len(t) >= 2 /\ SubSeq(t, 1, 2) = <<"D", "D">>
         THEN Pad(DayOf(n), 2) \o TokenFormat(n, SubSeq(t, 3, Len(t)))
    ELSE <<Head(t)>> \o TokenFormat(n, Tail(t))

\* C6: format_date returns the template with YYYY, MM and DD replaced by
\* the padded year, month and day and every other character, "%" included,
\* unchanged and in place.
C6_OnlyTokensReplaced ==
    pc = "returned" =>
        formatted_date = TokenFormat(missing_dates[1], args.out_date_format)

\* C7: for the same known set and range the mode "W" result is the whole
\* range minus known, the mode "N" result is its weekday part, and "W" is
\* "N" plus exactly the weekend days of the range that are absent from known.
C7_WeekendsAreTheDifference ==
    pc = "returned" =>
        LET w == find_missing_dates(known, start_date, end_date, "W")
            n == find_missing_dates(known, start_date, end_date, "N")
            W == {w[k] : k \in 1..Len(w)}
            N == {n[k] : k \in 1..Len(n)}
        IN  /\ args.data_format \in {"N", "W"} =>
                   Returned = (IF args.data_format = "W" THEN W ELSE N)
            /\ W = (start_date..end_date) \ KnownDates
            /\ N = {d \in W : ~IsWeekend(d)}
            /\ W = N \cup {d \in start_date..end_date :
                               IsWeekend(d) /\ d \notin KnownDates}
            /\ Len(w) = Cardinality(W)
            /\ Len(n) = Cardinality(N)

\* C7 witness: mode "W" has returned a weekday and a weekend day while
\* another weekend day of the range is known.
C7_Witness ==
    /\ pc = "returned"
    /\ args.data_format = "W"
    /\ \E d \in Returned : IsWeekend(d)
    /\ \E d \in Returned : ~IsWeekend(d)
    /\ \E d \in start_date..end_date : IsWeekend(d) /\ d \in KnownDates

\* C8: the dates find_missing_dates returned are strictly ascending, hence
\* without duplicate, whatever the order and the duplicates of the input,
\* and the rows of the output file are these dates in the same order.
C8_StrictlyAscending ==
    /\ \A j, k \in 1..Len(missing_dates) :
           j < k => missing_dates[j] < missing_dates[k]
    /\ \A k \in 2..Len(out_file.rows) :
           out_file.rows[k] = format_date(missing_dates[k - 1], args.out_date_format)
    /\ out_file.state = "closed" /\ error = "none" =>
           Len(out_file.rows) = Len(missing_dates) + 1

\* C8 witness: a successful run whose input rows were out of order or
\* repeated and that wrote at least two missing dates.
C8_Witness ==
    /\ pc = "done"
    /\ exit_code = 0
    /\ Len(out_file.rows) >= 3
    /\ \E j, k \in 1..Len(in_rows) :
           j < k /\ strptime(in_rows[j]) >= strptime(in_rows[k])

\* C9: an override that does not parse ends the run with a non-zero status
\* before any file is accessed, and a missing input file ends it with a
\* non-zero status before a row is read, a date computed or the output opened.
C9_FatalChecksFirst ==
    /\ (\E t \in {args.start_date, args.end_date} :
            t # AllText /\ strptime(t) = ValueError) =>
           /\ accessed = <<>>
           /\ out_file.state = "untouched"
           /\ pc \in {"parse_arguments", "done"}
           /\ pc = "done" => exit_code = 1
    /\ ~in_exists =>
           /\ \A k \in 1..Len(accessed) : accessed[k] = "exists"
           /\ dates = <<>> /\ missing_dates = <<>> /\ start_date = 0 /\ end_date = 0
           /\ out_file.state = "untouched"
           /\ pc \in {"parse_arguments", "check_exists", "done"}
           /\ pc = "done" => exit_code = 1

\* C9 witness: a run with an existing input file has ended on an override
\* that is no date.
C9_Witness ==
    /\ pc = "done"
    /\ exit_code = 1
    /\ in_exists
    /\ in_rows # <<>>
    /\ args.start_date = AllText
    /\ args.end_date = NoDateText

\* C10: the mode is never validated: with every mode other than "N" the
\* finder keeps the weekend days and the summary says "with weekends", with
\* "N" both leave them out, and no run fails because of its mode.
C10_ModeAgreement ==
    /\ AfterFind =>
           Returned = IF args.data_format = "N"
                      THEN {d \in (start_date..end_date) \ KnownDates : ~IsWeekend(d)}
                      ELSE (start_date..end_date) \ KnownDates
    /\ \A k \in 1..Len(stdout) :
           stdout[k].from # <<>> =>
               stdout[k].text = (IF args.data_format = "N"
                                 THEN "Non-trading days without weekends"
                                 ELSE "Non-trading days with weekends")
    /\ (pc = "done" /\ exit_code # 0) =>
           \/ \E t \in {args.start_date, args.end_date} :
                  t # AllText /\ strptime(t) = ValueError
           \/ ~in_exists
           \/ in_rows = <<>> /\ AllText \in {args.start_date, args.end_date}
           \/ AfterFind /\ missing_dates = <<>>

\* C10 witness: a run in mode "n" has ended successfully after writing a
\* weekend day.
C10_Witness ==
    /\ pc = "done"
    /\ exit_code = 0
    /\ args.data_format = "n"
    /\ \E d \in Returned : IsWeekend(d)
    /\ stdout[1].text = "Non-trading days with weekends"

====
